---- MODULE Spec2Model ----
(***************************************************************************)
(* A model of the three teaching notebooks (A2C, SAC, REINFORCE) held in   *)
(* src/Advantage Actor-Critic/06-1-a2c-basic.student.ipynb:                *)
(*   - the agents, whose forward(t) reads and writes workspace variables;  *)
(*   - the student exercise functions, which are placeholders;             *)
(*   - the training drivers run_a2c, run (REINFORCE) and run_sac.          *)
(* Tensors are functions over Time and Envs; networks (external, with      *)
(* unknown parameters) are nondeterministic functions of their input.      *)
(***************************************************************************)
EXTENDS Integers, Sequences, FiniteSets, TLC

(* ------------------------------ bounds -------------------------------- *)
\* number of parallel environments B
NEnvs == 2
\* number of time steps T of a workspace
TimeSize == 3
\* number of discrete actions n_action
NActions == 2
\* resolution of a probability: probabilities are k / ProbScale
ProbScale == 2

\* the most items an algorithm's iterator yields (max_epochs)
MaxItems == 2

\* members of the composite agents the notebooks build: Agents(a, b)
AgentsLen == 2

Envs == 1..NEnvs
Time == 0..(TimeSize - 1)
Actions == 0..(NActions - 1)
\* observations and critic outputs: two distinguishable values are enough
Obs == {0, 1}
Val == {0, 1}

VARIABLES
    workspace,  \* the BBRL workspace: (variable name, t) -> tensor over Envs
    last,       \* the last forward call made: agent, t, keyword
    ncalls,     \* forward calls made so far on this workspace
    exc,        \* the exception that ended the run, or NoExc
    fcall,      \* the exercise function called, with its arguments
    result,     \* how that call ended: a returned value or a raised exception
    driver,     \* the training driver that runs: run_a2c, run or run_sac
    pc,         \* its position
    config,     \* cfg.algorithm: entropy_mode, init_entropy_coef
    items,      \* the items the algorithm's iterator has left to yield
    loc,        \* the driver's local variables
    stats,      \* what the driver did so far: items fetched, calls made
    algo        \* the algorithm object: its attributes

agentVars == <<workspace, last, ncalls, exc>>
exerciseVars == <<fcall, result>>
driverVars == <<driver, pc, config, items, loc, stats, algo>>
vars == <<workspace, last, ncalls, exc, fcall, result, driver, pc, config, items, loc, stats, algo>>

NoExc == "none"
None == "None"

(* ---------------------------- the workspace ---------------------------- *)
\* Agent.get((name, t)): the tensor of variable name at time t
Has(ws, name, t) == <<name, t>> \in DOMAIN ws
Get(ws, name, t) == ws[<<name, t>>]
\* Agent.set((name, t), value): writes that one (variable, time) entry
Set(ws, name, t, value) ==
    [k \in (DOMAIN ws) \cup {<<name, t>>} |->
        IF k = <<name, t>> THEN value ELSE ws[k]]

Ok(ws) == [ws |-> ws, exc |-> NoExc]
Raise(ws, e) == [ws |-> ws, exc |-> e]

RECURSIVE SumTo(_, _)
SumTo(f, n) == IF n < 0 THEN 0 ELSE f[n] + SumTo(f, n - 1)
\* the sum of a row indexed by Actions
RowSum(row) == SumTo(row, NActions - 1)

\* probability rows, as softmax returns them; an entry may underflow to 0
Dist == {p \in [Actions -> 0..ProbScale] : RowSum(p) = ProbScale}
\* a row of NaN (softmax of non-finite scores)
NaNRow == [a \in Actions |-> 0 - 1]
IsNaN(row) == \E a \in Actions : row[a] < 0

RECURSIVE FloorLog2(_)
FloorLog2(n) == IF n <= 1 THEN 0 ELSE 1 + FloorLog2(n \div 2)
\* 8 * log2(n), rounded down: log2(n^8)
Log2x8(n) == FloorLog2(n * n * n * n * n * n * n * n)
\* Categorical(action_probs).entropy(), in fixed point: with p = w / S,
\* -sum p log2 p = log2 S - (1/S) sum w log2 w, here times 8 * S
Entropy(row) ==
    ProbScale * Log2x8(ProbScale)
        - SumTo([a \in Actions |-> row[a] * Log2x8(row[a])], NActions - 1)

(* ------------------- agents of the A2C / REINFORCE notebooks ----------- *)
\* the observations of the batch at time t
ObsAt(ws, t) == {Get(ws, "env/env_obs", t)[b] : b \in Envs}

\* ProbAgent.forward(t); model is softmax(self.model(.)) on the batch's
\* observations
ProbAgentForward(ws, t, model) ==
    LET observation == Get(ws, "env/env_obs", t)
        action_probs == [b \in Envs |-> model[observation[b]]]
        entropy == [b \in Envs |-> Entropy(action_probs[b])]
    IN  IF \E b \in Envs : IsNaN(action_probs[b])
        THEN Raise(ws, "AssertionError: NaN Here")
        ELSE Ok(Set(Set(ws, "action_probs", t, action_probs), "entropy", t, entropy))

\* a draw that ignores the probabilities
CategoricalSample_any(row) == Actions

\* torch.distributions.Categorical(probs).sample() for one row: the
\* indices the draw can return
CategoricalSample(row) == {a \in Actions : row[a] > 0}

\* StochasticActorAgent.forward(t); action is the tensor the draw returned
StochasticActorAgentForward(ws, t, action) ==
    IF ~Has(ws, "action_probs", t) THEN Raise(ws, "LookupError: action_probs")
    ELSE Ok(Set(ws, "action", t, action))

\* the draws StochasticActorAgent.forward(t) can make
StochasticDraws(ws, t) ==
    IF ~Has(ws, "action_probs", t) THEN {[b \in Envs |-> 0]}
    ELSE LET probs == Get(ws, "action_probs", t)
         IN  {action \in [Envs -> Actions] :
                \A b \in Envs : action[b] \in CategoricalSample(probs[b])}

\* the index of the first minimal value
Argmax_min(row) ==
    CHOOSE a \in Actions :
        /\ \A a2 \in Actions : row[a] <= row[a2]
        /\ \A a2 \in Actions : a2 < a => row[a2] > row[a]

\* row.argmax(): the index of the first maximal value
Argmax(row) ==
    CHOOSE a \in Actions :
        /\ \A a2 \in Actions : row[a] >= row[a2]
        /\ \A a2 \in Actions : a2 < a => row[a2] < row[a]

\* the values the keyword stochastic of a forward call can take
StochasticKw == {None, "True", "False"}

\* ArgmaxActorAgent.forward(t, stochastic=...)
ArgmaxActorAgentForward(ws, t, stochastic) ==
    IF ~Has(ws, "action_probs", t) THEN Raise(ws, "LookupError: action_probs")
    ELSE LET probs == Get(ws, "action_probs", t)
             action == [b \in Envs |-> Argmax(probs[b])]
         IN  Ok(Set(ws, "action", t, action))

\* CriticAgent.forward(t); critic_model is the network on the batch's
\* observations
CriticAgentForward(ws, t, critic_model) ==
    LET observation == Get(ws, "env/env_obs", t)
        critic == [b \in Envs |-> critic_model[observation[b]]]
    IN  Ok(Set(ws, "critic", t, critic))

\* a VAgent that writes the variable of CriticAgent
VAgentForward_critic(ws, t, model) ==
    LET observation == Get(ws, "env/env_obs", t)
        critic == [b \in Envs |-> model[observation[b]]]
    IN  Ok(Set(ws, "critic", t, critic))

\* VAgent.forward(t)
VAgentForward(ws, t, model) ==
    LET observation == Get(ws, "env/env_obs", t)
        critic == [b \in Envs |-> model[observation[b]]]
    IN  Ok(Set(ws, "v_value", t, critic))

(* ----------------------- agents of the SAC notebook -------------------- *)
\* the grid of pre-squashing values (means and samples of the Gaussian)
Gauss == {0 - 1, 1}
\* TanhTransform, in hundredths: tanh(1) = 0.76
Tanh(x) == IF x < 0 THEN 0 - 76 ELSE IF x = 0 THEN 0 ELSE 76
\* TransformedDistribution(normal_dist, [tanh]).log_prob(tanh(x)), in
\* hundredths, for a unit-variance Gaussian of the given mean: the Gaussian
\* log-density -(x - mean)^2 / 2 - 0.92 minus the log-Jacobian of tanh,
\* log(1 - tanh(x)^2) = -0.87 at |x| = 1
LogProb(mean, x) ==
    (0 - 50) * (x - mean) * (x - mean) - 92 + (IF x = 0 THEN 0 ELSE 87)

\* the prefixes given to the critics by with_prefix(...)
Prefixes == {"critic-1/", "critic-2/", "target-critic-1/", "target-critic-2/"}

\* SquashedGaussianActor.forward(t, stochastic): mean is the mean of
\* normal_dist on the batch's observations, sample the pre-squashing
\* value rsample() drew for each row
SquashedGaussianActorForward(ws, t, stochastic, mean, sample) ==
    LET observation == Get(ws, "env/env_obs", t)
        x == [b \in Envs |-> IF stochastic THEN sample[b]
                             ELSE mean[observation[b]]]
        action == [b \in Envs |-> Tanh(x[b])]
        log_prob == [b \in Envs |-> LogProb(mean[observation[b]], x[b])]
    IN  Ok(Set(Set(ws, "action", t, action), "action_logprobs", t, log_prob))

\* the rows of torch.cat((obs, action), dim=1) of the batch at time t
ObsAct(ws, t) ==
    {<<Get(ws, "env/env_obs", t)[b], Get(ws, "action", t)[b]>> : b \in Envs}

\* ContinuousQAgent.forward(t) of the critic named by prefix; model is
\* the network on the batch's (observation, action) rows
ContinuousQAgentForward(ws, t, prefix, model) ==
    IF ~Has(ws, "action", t) THEN Raise(ws, "LookupError: action")
    ELSE LET obs == Get(ws, "env/env_obs", t)
             action == Get(ws, "action", t)
             q_value == [b \in Envs |-> model[<<obs[b], action[b]>>]]
         IN  Ok(Set(ws, prefix \o "q_value", t, q_value))

(* ------------------ forward calls on one workspace --------------------- *)
\* no exercise function was called
NoCall == [fn |-> None]
NoResult == [kind |-> None]

Call(agent, t, kw) == [agent |-> agent, t |-> t, kw |-> kw]

\* a forward call can be made: nothing was raised, and the composite agent
\* has a member left to run
CanCall == exc = NoExc /\ ncalls < AgentsLen

\* the effect of one forward call whose outcome is out
Forward(call, out) ==
    /\ workspace' = out.ws
    /\ exc' = out.exc
    /\ last' = call
    /\ ncalls' = ncalls + 1
    /\ UNCHANGED <<exerciseVars, driverVars>>

ProbAgent_forward(t) ==
    /\ CanCall
    /\ \E model \in [ObsAt(workspace, t) -> Dist \cup {NaNRow}] :
        Forward(Call("ProbAgent", t, None), ProbAgentForward(workspace, t, model))

StochasticActorAgent_forward(t) ==
    /\ CanCall
    /\ \E action \in StochasticDraws(workspace, t) :
        Forward(Call("StochasticActorAgent", t, None),
                StochasticActorAgentForward(workspace, t, action))

ArgmaxActorAgent_forward(t) ==
    /\ CanCall
    /\ \E stochastic \in StochasticKw :
        Forward(Call("ArgmaxActorAgent", t, stochastic),
                ArgmaxActorAgentForward(workspace, t, stochastic))

CriticAgent_forward(t) ==
    /\ CanCall
    /\ \E critic_model \in [ObsAt(workspace, t) -> Val] :
        Forward(Call("CriticAgent", t, None),
                CriticAgentForward(workspace, t, critic_model))

VAgent_forward(t) ==
    /\ CanCall
    /\ \E model \in [ObsAt(workspace, t) -> Val] :
        Forward(Call("VAgent", t, None), VAgentForward(workspace, t, model))

SquashedGaussianActor_forward(t) ==
    /\ CanCall
    /\ \E stochastic \in BOOLEAN, mean \in [ObsAt(workspace, t) -> Gauss] :
        \E sample \in (IF stochastic THEN [Envs -> Gauss] ELSE {[b \in Envs |-> 1]}) :
            Forward(Call("SquashedGaussianActor", t, IF stochastic THEN "True" ELSE "False"),
                    SquashedGaussianActorForward(workspace, t, stochastic, mean, sample))

ContinuousQAgent_forward(t) ==
    /\ CanCall
    /\ \E prefix \in Prefixes :
        \E model \in (IF Has(workspace, "action", t)
                      THEN [ObsAct(workspace, t) -> Val] ELSE {<<>>}) :
            Forward(Call("ContinuousQAgent", t, prefix),
                    ContinuousQAgentForward(workspace, t, prefix, model))

\* the workspace the environment agent filled: observations at every time
\* step, row b of step t observing (b + t * shift) mod 2
EnvWorkspace(shift) ==
    [k \in {<<"env/env_obs", t>> : t \in Time} |->
        [b \in Envs |-> (b + k[2] * shift) % 2]]

\* no exercise function is called
NoExercise == fcall = NoCall /\ result = NoResult
\* no driver runs
NoDriver ==
    /\ driver = None
    /\ pc = None
    /\ config = None
    /\ items = 0
    /\ loc = None
    /\ stats = None
    /\ algo = None

AgentsInit ==
    /\ \E shift \in {0, 1} : workspace = EnvWorkspace(shift)
    /\ last = Call(None, 0, None)
    /\ ncalls = 0
    /\ exc = NoExc
    /\ NoExercise
    /\ NoDriver

AgentsNext ==
    \E t \in Time :
        \/ ProbAgent_forward(t)
        \/ StochasticActorAgent_forward(t)
        \/ ArgmaxActorAgent_forward(t)
        \/ CriticAgent_forward(t)
        \/ VAgent_forward(t)
        \/ SquashedGaussianActor_forward(t)
        \/ ContinuousQAgent_forward(t)

SpecAgents == AgentsInit /\ [][AgentsNext]_vars

(* ------------------------- claims on the agents ------------------------ *)
\* the workspace variables an agent's forward writes
OutputVars(call) ==
    CASE call.agent = "ProbAgent" -> {"action_probs", "entropy"}
      [] call.agent = "StochasticActorAgent" -> {"action"}
      [] call.agent = "ArgmaxActorAgent" -> {"action"}
      [] call.agent = "CriticAgent" -> {"critic"}
      [] call.agent = "VAgent" -> {"v_value"}
      [] call.agent = "ContinuousQAgent" -> {call.kw \o "q_value"}
      [] call.agent = "SquashedGaussianActor" -> {"action", "action_logprobs"}
      [] OTHER -> {}

OutputKeys(call) == {<<v, call.t>> : v \in OutputVars(call)}

\* C5: a forward(t) call writes only the agent's own output variables and
\* only at time index t (all of them when it does not raise); every other
\* (variable, time) entry of the workspace is unchanged and none is added.
C5_ForwardWritesOnlyOwnOutputs ==
    [][ /\ \A k \in (DOMAIN workspace) \cup (DOMAIN workspace') :
              k \notin OutputKeys(last') =>
                  /\ k \in DOMAIN workspace
                  /\ k \in DOMAIN workspace'
                  /\ workspace'[k] = workspace[k]
        /\ exc' = NoExc => OutputKeys(last') \subseteq DOMAIN workspace'
      ]_vars

\* C5 witness: SquashedGaussianActor ran at t = 1 on a workspace that
\* already held action_probs and entropy at t = 0
C5_Witness ==
    /\ exc = NoExc
    /\ last.agent = "SquashedGaussianActor"
    /\ last.t = 1
    /\ Has(workspace, "action_probs", 0)
    /\ Has(workspace, "entropy", 0)
    /\ Has(workspace, "action_logprobs", 1)

\* C6: after ArgmaxActorAgent.forward(t), the action written for every
\* environment row has a probability at least that of every other action of
\* the row, and the call writes the same action for every value of the
\* keyword stochastic.
C6_ArgmaxWritesMostProbableAction ==
    (last.agent = "ArgmaxActorAgent" /\ exc = NoExc) =>
        LET probs == Get(workspace, "action_probs", last.t)
            action == Get(workspace, "action", last.t)
        IN  /\ \A b \in Envs : \A a \in Actions :
                  /\ action[b] \in Actions
                  /\ probs[b][action[b]] >= probs[b][a]
            /\ \A kw \in StochasticKw :
                  ArgmaxActorAgentForward(workspace, last.t, kw).ws = workspace

\* C6 witness: called with stochastic=True, on rows without ties whose most
\* probable actions differ between two environments
C6_Witness ==
    /\ exc = NoExc
    /\ last.agent = "ArgmaxActorAgent"
    /\ last.kw = "True"
    /\ \E b1, b2 \in Envs :
          /\ Get(workspace, "action", last.t)[b1] # Get(workspace, "action", last.t)[b2]
          /\ \A a1, a2 \in Actions :
                a1 # a2 => Get(workspace, "action_probs", last.t)[b1][a1]
                            # Get(workspace, "action_probs", last.t)[b1][a2]

\* C7: after StochasticActorAgent.forward(t), the action written for every
\* environment row is an index in 0..n_action-1 whose probability in
\* action_probs at t is strictly positive.
C7_StochasticNeverPicksZeroProbability ==
    (last.agent = "StochasticActorAgent" /\ exc = NoExc) =>
        LET probs == Get(workspace, "action_probs", last.t)
            action == Get(workspace, "action", last.t)
        IN  \A b \in Envs :
                /\ action[b] \in Actions
                /\ probs[b][action[b]] > 0

\* C7 witness: a row holds an action of probability zero, another row has
\* several actions of positive probability
C7_Witness ==
    /\ exc = NoExc
    /\ last.agent = "StochasticActorAgent"
    /\ \E b \in Envs : \E a \in Actions :
          Get(workspace, "action_probs", last.t)[b][a] = 0
    /\ \E b \in Envs : \A a \in Actions :
          Get(workspace, "action_probs", last.t)[b][a] > 0

(* ------------------- the student exercise functions -------------------- *)
\* how a call ends
Return(value) == [kind |-> "return", value |-> value]
Raises(e) == [kind |-> "raise", value |-> e]
\* the statement  assert cond, msg  followed by the statements rest
AssertThen(cond, msg, rest) ==
    IF cond THEN rest ELSE Raises("AssertionError: " \o msg)

\* the value of the literal ...
Ellipsis == "Ellipsis"

\* rewards of a workspace: one per time step and environment
Rewards == [Time -> [Envs -> {0, 1}]]
\* critic values of a workspace
Critics == {[t \in Time |-> [b \in Envs |-> v]] : v \in Val}
\* how the episode of each environment ends: at a terminal state or at a
\* time limit (truncated); its number of steps, 2..TimeSize, the longest
\* episode filling the workspace
EndKinds == {"terminated", "truncated"}
EpisodeEnds ==
    {e \in [Envs -> [len : 2..TimeSize, kind : EndKinds]] :
        \E b \in Envs : e[b].len = TimeSize}
\* env/done: true from the last step of the episode on (the steps after
\* it duplicate the last transition)
DoneOf(e) == [t \in Time |-> [b \in Envs |-> t >= e[b].len - 1]]
\* env/terminated: done, and the episode ended at a terminal state
TerminatedOf(e) ==
    [t \in Time |-> [b \in Envs |-> t >= e[b].len - 1 /\ e[b].kind = "terminated"]]
\* episodes that all fill the workspace
FullEnds == {e \in EpisodeEnds : \A b \in Envs : e[b].len = TimeSize}

\* element-wise ~ of a boolean tensor
Not(tensor) ==
    [t \in DOMAIN tensor |-> [b \in DOMAIN tensor[t] |-> ~tensor[t][b]]]

RECURSIVE SumOver(_, _)
SumOver(f, S) ==
    IF S = {} THEN 0
    ELSE LET x == CHOOSE y \in S : TRUE IN f[x] + SumOver(f, S \ {x})
\* (delta ** 2).mean() times the number of entries, for delta over Envs
SumSq(delta) == SumOver([b \in Envs |-> delta[b] * delta[b]], Envs)

\* compute_critic_loss of the A2C notebook
a2c_compute_critic_loss(cfg, reward, must_bootstrap, critic) ==
    LET delta == Ellipsis
    IN  AssertThen(FALSE, "Not implemented yet",
            IF delta = Ellipsis
            THEN Raises("TypeError: unsupported operand type(s) for **")
            ELSE LET critic_loss == SumSq(delta)
                 IN  Return(<<critic_loss, delta>>))

\* compute_critic_loss of the SAC notebook
sac_compute_critic_loss(cfg, reward, must_bootstrap, t_actor, t_q_agents, t_target_q_agents, rb_workspace, ent_coef) ==
    AssertThen(FALSE, "Not implemented yet",
        AssertThen(FALSE, "Not implemented yet",
            Raises("NameError: critic_loss_1")))

\* compute_actor_loss of the SAC notebook
sac_compute_actor_loss(ent_coef, t_actor, t_q_agents, rb_workspace) ==
    AssertThen(FALSE, "Not implemented yet",
        AssertThen(FALSE, "Not implemented yet",
            Raises("NameError: q_values_1")))

\* a version that returns the rewards it was given
apply_discounted_sum_reward(cfg, reward, v_value) == Return(reward)

\* apply_discounted_sum of the REINFORCE notebook
apply_discounted_sum(cfg, reward, v_value) ==
    AssertThen(FALSE, "Not implemented yet", Return(None))

\* apply_discounted_sum_minus_baseline of the REINFORCE notebook
apply_discounted_sum_minus_baseline(cfg, reward, v_value) ==
    AssertThen(FALSE, "Not implemented yet", Return(None))

\* compute_td_critic_loss of the REINFORCE notebook
compute_td_critic_loss(cfg, reward, must_bootstrap, done, critic) ==
    AssertThen(FALSE, "Not implemented yet", Raises("NameError: critic_loss"))

\* compute_critic_loss_mc of the REINFORCE notebook
compute_critic_loss_mc(cfg, reward, must_bootstrap, done, critic) ==
    AssertThen(FALSE, "Not implemented yet", Return(None))

\* the names of the seven exercise functions
ExerciseFunctions ==
    {"a2c.compute_critic_loss", "sac.compute_critic_loss", "sac.compute_actor_loss",
     "apply_discounted_sum", "apply_discounted_sum_minus_baseline",
     "compute_td_critic_loss", "compute_critic_loss_mc"}

\* the entropy coefficients a caller passes, in thousandths
EntCoefs == {0, 1, 200}
\* the replay-buffer workspaces a caller passes, by name
RbWorkspaces == {"rb_workspace_1", "rb_workspace_2"}

\* no call was made yet
Idle == fcall = NoCall

\* one call of fn on args ends as out
Called(fn, args, out) ==
    /\ fcall' = [fn |-> fn, args |-> args]
    /\ result' = out
    /\ UNCHANGED <<agentVars, driverVars>>

Call_a2c_compute_critic_loss ==
    /\ Idle
    /\ \E reward \in [{0, 1} -> [Envs -> {0, 1}]], e \in FullEnds, critic \in Critics :
        LET must_bootstrap == [i \in {0, 1} |-> Not(TerminatedOf(e))[TimeSize - 2 + i]]
            value == [i \in {0, 1} |-> critic[i]]
        IN  Called("a2c.compute_critic_loss",
                   [reward |-> reward, must_bootstrap |-> must_bootstrap, critic |-> value],
                   a2c_compute_critic_loss("cfg", reward, must_bootstrap, value))

Call_sac_compute_critic_loss ==
    /\ Idle
    /\ \E reward \in [{0, 1} -> [Envs -> {0, 1}]], e \in FullEnds,
       rb_workspace \in RbWorkspaces, ent_coef \in EntCoefs :
        LET must_bootstrap == [i \in {0, 1} |-> Not(TerminatedOf(e))[TimeSize - 2 + i]]
        IN  Called("sac.compute_critic_loss",
                   [reward |-> reward, must_bootstrap |-> must_bootstrap,
                    rb_workspace |-> rb_workspace, ent_coef |-> ent_coef],
                   sac_compute_critic_loss("cfg", reward, must_bootstrap, "t_actor",
                        "t_q_agents", "t_target_q_agents", rb_workspace, ent_coef))

Call_sac_compute_actor_loss ==
    /\ Idle
    /\ \E rb_workspace \in RbWorkspaces, ent_coef \in EntCoefs :
        Called("sac.compute_actor_loss",
               [rb_workspace |-> rb_workspace, ent_coef |-> ent_coef],
               sac_compute_actor_loss(ent_coef, "t_actor", "t_q_agents", rb_workspace))

Call_apply_discounted_sum ==
    /\ Idle
    /\ \E reward \in Rewards, v_value \in Critics :
        Called("apply_discounted_sum", [reward |-> reward, v_value |-> v_value],
               apply_discounted_sum("cfg", reward, v_value))

Call_apply_discounted_sum_minus_baseline ==
    /\ Idle
    /\ \E reward \in Rewards, v_value \in Critics :
        Called("apply_discounted_sum_minus_baseline",
               [reward |-> reward, v_value |-> v_value],
               apply_discounted_sum_minus_baseline("cfg", reward, v_value))

Call_compute_td_critic_loss ==
    /\ Idle
    /\ \E reward \in Rewards, e \in FullEnds, critic \in Critics :
        Called("compute_td_critic_loss",
               [reward |-> reward, must_bootstrap |-> Not(TerminatedOf(e)),
                done |-> DoneOf(e), critic |-> critic],
               compute_td_critic_loss("cfg", reward, Not(TerminatedOf(e)), DoneOf(e), critic))

Call_compute_critic_loss_mc ==
    /\ Idle
    /\ \E reward \in Rewards, e \in FullEnds, critic \in Critics :
        Called("compute_critic_loss_mc",
               [reward |-> reward, must_bootstrap |-> Not(TerminatedOf(e)),
                done |-> DoneOf(e), critic |-> critic],
               compute_critic_loss_mc("cfg", reward, Not(TerminatedOf(e)), DoneOf(e), critic))

\* no agent is called
NoAgents ==
    /\ workspace = EnvWorkspace(0)
    /\ last = Call(None, 0, None)
    /\ ncalls = 0
    /\ exc = NoExc

ExercisesInit ==
    /\ NoAgents
    /\ NoExercise
    /\ NoDriver

ExercisesNext ==
    \/ Call_a2c_compute_critic_loss
    \/ Call_sac_compute_critic_loss
    \/ Call_sac_compute_actor_loss
    \/ Call_apply_discounted_sum
    \/ Call_apply_discounted_sum_minus_baseline
    \/ Call_compute_td_critic_loss
    \/ Call_compute_critic_loss_mc

SpecExercises == ExercisesInit /\ [][ExercisesNext]_vars

(* ------------------------ the training drivers ------------------------- *)
\* Python's None, and a local variable that is not bound yet
PyNone == [type |-> "NoneType"]
Unbound == [type |-> "unbound"]
\* an optimizer over the named parameters; a torch parameter
\* a version that leaves the critic out
Optimizer_actor(params) ==
    [type |-> "optimizer", params |-> params \ {"critic_agent", "t_critic_agent"}]

Optimizer(params) == [type |-> "optimizer", params |-> params]
Parameter(value) == [type |-> "Parameter", value |-> value]

\* the values cfg.algorithm.entropy_mode is given
EntropyModes == {"auto", "fixed", "Auto", "none"}
\* the values cfg.algorithm.init_entropy_coef is given, powers of two in
\* units of 1e-7 (the notebook's is 2e-7)
InitEntropyCoefs == {1, 2, 4}
Configs == [entropy_mode : EntropyModes, init_entropy_coef : InitEntropyCoefs]

\* torch.log and exp, in base 2 (exact on the powers of two)
Log(x) == FloorLog2(x)
RECURSIVE Exp(_)
Exp(k) == IF k <= 0 THEN 1 ELSE 2 * Exp(k - 1)

\* a version that sets the optimizer up whatever the mode
setup_entropy_optimizers_always(c) ==
    <<Optimizer({"log_entropy_coef"}), Parameter(Log(c.init_entropy_coef))>>

\* a version that never sets the optimizer up
setup_entropy_optimizers_never(c) == <<PyNone, PyNone>>

\* setup_entropy_optimizers(cfg), c being cfg.algorithm
setup_entropy_optimizers(c) ==
    IF c.entropy_mode = "auto"
    THEN LET log_entropy_coef == Parameter(Log(c.init_entropy_coef))
             entropy_coef_optimizer == Optimizer({"log_entropy_coef"})
         IN  <<entropy_coef_optimizer, log_entropy_coef>>
    ELSE <<PyNone, PyNone>>

\* the local variables of a driver before it runs
NoLocals ==
    [optimizer |-> Unbound, actor_optimizer |-> Unbound, critic_optimizer |-> Unbound,
     ent_coef |-> Unbound, entropy_coef_optimizer |-> Unbound,
     log_entropy_coef |-> Unbound, target_entropy |-> Unbound,
     item |-> Unbound, tensors |-> Unbound, must_bootstrap |-> Unbound]

NoStats ==
    [yielded |-> 0, evaluated |-> 0, entropy_steps |-> 0, soft_updates |-> 0,
     logged |-> {}, error |-> NoExc]

\* the condition once the exercise is done and the statement removed
Placeholder_filled == TRUE

\* the condition of the statement  assert False, 'Not implemented yet'
Placeholder == FALSE
NotImplemented == "AssertionError: Not implemented yet"

\* the exception e leaves the driver
Abort(e) ==
    /\ pc' = "raised"
    /\ stats' = [stats EXCEPT !.error = e]
    /\ UNCHANGED <<loc, items>>

\* algo.evaluate(), at the end of an iteration
Evaluate(st) == [st EXCEPT !.evaluated = @ + 1]

\* for item in iterator: the next item, or the end of the loop
For(d, yield) ==
    /\ driver = d
    /\ pc = "loop"
    /\ IF items > 0
       THEN /\ items' = items - 1
            /\ loc' = [loc EXCEPT !.item = yield]
            /\ stats' = [stats EXCEPT !.yielded = @ + 1]
            /\ pc' = "body"
       ELSE /\ pc' = "returned"
            /\ UNCHANGED <<items, loc, stats>>
    /\ UNCHANGED <<config, driver, algo, agentVars, exerciseVars>>

\* the (t, b) whose transition train_workspace.get_transitions() keeps: the
\* steps that are not done, paired with the step that follows
Transitions(e) == {k \in (0..(TimeSize - 2)) \X Envs : ~DoneOf(e)[k[1]][k[2]]}
\* a variable of the transition workspace: 2 x (number of transitions)
TransitionTensor(e, tensor) ==
    [i \in {0, 1} |-> [k \in Transitions(e) |-> tensor[k[1] + i][k[2]]]]

\* a version that forgets the negation
MustBootstrap_same(terminated) == terminated

\* must_bootstrap = ~terminated
MustBootstrap(terminated) == Not(terminated)

(* run_a2c *)
run_a2c_setup ==
    /\ driver = "run_a2c"
    /\ pc = "start"
    /\ loc' = [loc EXCEPT !.optimizer = Optimizer({"prob_agent", "critic_agent"})]
    /\ pc' = "loop"
    /\ UNCHANGED <<config, driver, items, stats, algo, agentVars, exerciseVars>>

run_a2c_for ==
    /\ pc = "loop"
    /\ \E e \in EpisodeEnds : For("run_a2c", [ends |-> e])

run_a2c_tensors ==
    /\ driver = "run_a2c"
    /\ pc = "body"
    /\ LET terminated == TransitionTensor(loc.item.ends, TerminatedOf(loc.item.ends))
       IN  loc' = [loc EXCEPT !.tensors = [terminated |-> terminated],
                              !.must_bootstrap = MustBootstrap(terminated)]
    /\ pc' = "loss"
    /\ UNCHANGED <<config, driver, items, stats, algo, agentVars, exerciseVars>>

run_a2c_loss ==
    /\ driver = "run_a2c"
    /\ pc = "loss"
    /\ IF Placeholder
       THEN /\ stats' = Evaluate(stats)
            /\ pc' = "loop"
            /\ UNCHANGED <<loc, items>>
       ELSE Abort(NotImplemented)
    /\ UNCHANGED <<config, driver, algo, agentVars, exerciseVars>>

(* run, of the REINFORCE notebook *)
run_for ==
    /\ pc = "loop"
    /\ \E e \in EpisodeEnds : For("run", [ends |-> e])

run_tensors ==
    /\ driver = "run"
    /\ pc = "body"
    /\ LET terminated == TerminatedOf(loc.item.ends)
           done == DoneOf(loc.item.ends)
       IN  loc' = [loc EXCEPT !.tensors = [terminated |-> terminated, done |-> done],
                              !.must_bootstrap = MustBootstrap(terminated)]
    /\ pc' = "loss"
    /\ UNCHANGED <<config, driver, items, stats, algo, agentVars, exerciseVars>>

run_loss ==
    /\ driver = "run"
    /\ pc = "loss"
    /\ IF Placeholder
       THEN /\ stats' = Evaluate(stats)
            /\ pc' = "loop"
            /\ UNCHANGED <<loc, items>>
       ELSE Abort(NotImplemented)
    /\ UNCHANGED <<config, driver, algo, agentVars, exerciseVars>>

(* run_sac *)
run_sac_setup ==
    /\ driver = "run_sac"
    /\ pc = "start"
    /\ LET ent_coef == config.init_entropy_coef
           pair == setup_entropy_optimizers(config)
           target_entropy == IF config.entropy_mode = "auto" THEN 0 - 1 ELSE Unbound
       IN  loc' = [loc EXCEPT !.ent_coef = ent_coef,
                              !.actor_optimizer = Optimizer({"actor"}),
                              !.critic_optimizer = Optimizer({"critic_1", "critic_2"}),
                              !.entropy_coef_optimizer = pair[1],
                              !.log_entropy_coef = pair[2],
                              !.target_entropy = target_entropy]
    /\ pc' = "loop"
    /\ UNCHANGED <<config, driver, items, stats, algo, agentVars, exerciseVars>>

run_sac_for ==
    /\ pc = "loop"
    /\ \E rb \in RbWorkspaces : For("run_sac", [rb |-> rb])

\* the body of the loop of run_sac: the placeholder, then the entropy
\* optimizer part (which reads rb_workspace, a name the function never
\* binds), the soft updates and the evaluation
run_sac_body ==
    /\ driver = "run_sac"
    /\ pc = "body"
    /\ IF Placeholder
       THEN IF loc.entropy_coef_optimizer # PyNone
            THEN Abort("NameError: rb_workspace")
            ELSE /\ stats' = Evaluate([stats EXCEPT !.soft_updates = @ + 2])
                 /\ pc' = "loop"
                 /\ UNCHANGED <<loc, items>>
       ELSE Abort(NotImplemented)
    /\ UNCHANGED <<config, driver, algo, agentVars, exerciseVars>>

(* the algorithms' constructors *)
\* the environments an algorithm is built on: with continuous actions or not
TrainEnvs == [continuous : BOOLEAN]
\* the object once super().__init__(cfg) has made its environment
NewAlgo(env) == [train_env |-> env]

\* a version that takes every environment for a continuous one
is_continuous_action_any(env) == TRUE

\* self.train_env.is_continuous_action()
is_continuous_action(env) == env.continuous

\* the agents, and the wrappers around them
Agent(type) == [type |-> type]
Agents(a, b) == [type |-> "Agents", agents |-> <<a, b>>]
TemporalAgent(agent) == [type |-> "TemporalAgent", agent |-> agent]
KWAgentWrapper(agent, stochastic) ==
    [type |-> "KWAgentWrapper", agent |-> agent, stochastic |-> stochastic]
WithPrefix(agent, prefix) == [type |-> agent.type, prefix |-> prefix]
\* setup_optimizer(cfg_optimizer, *agents): one optimizer over the
\* parameters of the agents
setup_optimizer(agents) == Optimizer(agents)

NotContinuous == "AssertionError: SAC code dedicated to continuous actions"

\* A2CAlgorithm.__init__, then run_a2c is called on the object
A2CAlgorithm_init ==
    /\ driver = "run_a2c"
    /\ pc = "new"
    /\ LET prob_agent == Agent("ProbAgent")
           critic_agent == Agent("CriticAgent")
       IN  algo' = [train_env |-> algo.train_env,
                    prob_agent |-> prob_agent,
                    critic_agent |-> critic_agent,
                    train_policy |-> Agents(prob_agent, Agent("StochasticActorAgent")),
                    eval_policy |-> Agents(prob_agent, Agent("ArgmaxActorAgent"))]
    /\ pc' = "start"
    /\ UNCHANGED <<config, driver, items, loc, stats, agentVars, exerciseVars>>

\* SACAlgo.__init__, then run_sac is called on the object
SACAlgo_init ==
    /\ driver = "run_sac"
    /\ pc = "new"
    /\ IF is_continuous_action(algo.train_env)
       THEN LET actor == Agent("SquashedGaussianActor")
                critic_1 == WithPrefix(Agent("ContinuousQAgent"), "critic-1/")
                critic_2 == WithPrefix(Agent("ContinuousQAgent"), "critic-2/")
            IN  /\ algo' = [train_env |-> algo.train_env,
                            actor |-> actor,
                            critic_1 |-> critic_1,
                            target_critic_1 |-> WithPrefix(critic_1, "target-critic-1/"),
                            critic_2 |-> critic_2,
                            target_critic_2 |-> WithPrefix(critic_2, "target-critic-2/"),
                            train_policy |-> actor,
                            eval_policy |-> KWAgentWrapper(actor, FALSE)]
                /\ pc' = "start"
                /\ UNCHANGED stats
       ELSE /\ pc' = "failed"
            /\ stats' = [stats EXCEPT !.error = NotContinuous]
            /\ UNCHANGED algo
    /\ UNCHANGED <<config, driver, items, loc, agentVars, exerciseVars>>

\* Reinforce.__init__, then run is called on the object
Reinforce_init ==
    /\ driver = "run"
    /\ pc = "new"
    /\ LET proba_agent == Agent("ProbAgent")
       IN  algo' = [train_env |-> algo.train_env,
                    proba_agent |-> proba_agent,
                    train_policy |-> Agents(proba_agent, Agent("StochasticActorAgent")),
                    t_critic_agent |-> TemporalAgent(Agent("VAgent")),
                    eval_policy |-> Agents(proba_agent, Agent("ArgmaxActorAgent")),
                    optimizer |-> setup_optimizer({"proba_agent", "t_critic_agent"})]
    /\ pc' = "loop"
    /\ UNCHANGED <<config, driver, items, loc, stats, agentVars, exerciseVars>>

DriversInit ==
    /\ NoAgents
    /\ NoExercise
    /\ driver \in {"run_a2c", "run", "run_sac"}
    /\ pc = "new"
    /\ config \in Configs
    /\ items \in 0..MaxItems
    /\ loc = NoLocals
    /\ stats = NoStats
    /\ algo \in {NewAlgo(env) : env \in TrainEnvs}

DriversNext ==
    \/ A2CAlgorithm_init
    \/ SACAlgo_init
    \/ Reinforce_init
    \/ run_a2c_setup
    \/ run_a2c_for
    \/ run_a2c_tensors
    \/ run_a2c_loss
    \/ run_for
    \/ run_tensors
    \/ run_loss
    \/ run_sac_setup
    \/ run_sac_for
    \/ run_sac_body

SpecDrivers == DriversInit /\ [][DriversNext]_vars

(* ---------------------- properties of the exercises -------------------- *)
\* C1: every exercise function is a placeholder: whatever its arguments,
\* a call of A2C compute_critic_loss, SAC compute_critic_loss, SAC
\* compute_actor_loss, apply_discounted_sum,
\* apply_discounted_sum_minus_baseline, compute_td_critic_loss or
\* compute_critic_loss_mc ends in AssertionError 'Not implemented yet' and
\* returns no value.
C1_ExercisesRaiseNotImplemented ==
    fcall # NoCall =>
        /\ fcall.fn \in ExerciseFunctions
        /\ result.kind = "raise"
        /\ result.value = NotImplemented

C1_Witness ==
    /\ fcall # NoCall
    /\ fcall.fn = "apply_discounted_sum"
    /\ \E t \in Time, b \in Envs : fcall.args.reward[t][b] = 1
    /\ result = Raises(NotImplemented)

\* cfg.algorithm.discount_factor, in hundredths
Discount == 95
\* the TD(0) error of the transitions, in hundredths:
\* r + discount * V(s') * must_bootstrap - V(s)
TemporalDifference(reward, must_bootstrap, critic) ==
    [b \in Envs |->
        100 * reward[1][b]
        + Discount * critic[1][b] * (IF must_bootstrap[1][b] THEN 1 ELSE 0)
        - 100 * critic[0][b]]

\* C4: A2C compute_critic_loss(cfg, reward, must_bootstrap, critic) returns
\* the pair (critic_loss, delta), delta being the TD(0) error in which
\* V(s') is multiplied by must_bootstrap and critic_loss the mean of the
\* squares of delta (here their sum: the mean times the number of entries).
C4_CriticLossIsMeanSquaredTD ==
    (fcall # NoCall /\ fcall.fn = "a2c.compute_critic_loss") =>
        LET delta == TemporalDifference(fcall.args.reward, fcall.args.must_bootstrap,
                                        fcall.args.critic)
        IN  /\ result.kind = "return"
            /\ result.value = <<SumSq(delta), delta>>

(* ----------------------- properties of the drivers --------------------- *)
\* the driver is between two iterations, or has ended
BetweenIterations == pc \in {"loop", "returned", "raised"}

\* C2: in run_a2c, run and run_sac every item the iterator yields has its
\* loss step followed by exactly one evaluate() before the next item is
\* fetched: between iterations evaluate() was called as many times as
\* items were yielded, and the driver ends only once the iterator is
\* exhausted.
C2_EvaluateOncePerItem ==
    /\ BetweenIterations => stats.evaluated = stats.yielded
    /\ pc \in {"returned", "raised"} => items = 0

\* C3: in run_a2c and run, must_bootstrap is the element-wise negation of
\* env/terminated: false exactly at the terminal entries, true where the
\* episode continues and where it ended by a time limit only.
C3_MustBootstrapIsNotTerminated ==
    (driver \in {"run_a2c", "run"} /\ pc = "loss") =>
        LET terminated == loc.tensors.terminated
            must_bootstrap == loc.must_bootstrap
            e == loc.item.ends
        IN  /\ DOMAIN must_bootstrap = DOMAIN terminated
            /\ \A t \in DOMAIN terminated :
                /\ DOMAIN must_bootstrap[t] = DOMAIN terminated[t]
                /\ \A b \in DOMAIN terminated[t] :
                    must_bootstrap[t][b] = ~terminated[t][b]
            /\ driver = "run" =>
                \A t \in Time, b \in Envs :
                    must_bootstrap[t][b] =
                        (t < e[b].len - 1 \/ e[b].kind = "truncated")
            /\ driver = "run_a2c" =>
                \A i \in {0, 1}, k \in Transitions(e) :
                    must_bootstrap[i][k] =
                        (k[1] + i < e[k[2]].len - 1 \/ e[k[2]].kind = "truncated")

C3_Witness ==
    /\ driver = "run"
    /\ pc = "loss"
    /\ \E t \in Time, b \in Envs :
        loc.tensors.terminated[t][b] /\ ~loc.must_bootstrap[t][b]
    /\ \E t \in Time, b \in Envs :
        /\ loc.tensors.done[t][b]
        /\ ~loc.tensors.terminated[t][b]
        /\ loc.must_bootstrap[t][b]
    /\ \E t \in Time, b \in Envs :
        ~loc.tensors.done[t][b] /\ loc.must_bootstrap[t][b]

\* run_sac has called setup_entropy_optimizers
SacIsSetUp == driver = "run_sac" /\ pc \notin {"new", "failed", "start"}

\* C8: setup_entropy_optimizers(cfg) returns (optimizer, log_entropy_coef),
\* both not None, exactly when entropy_mode is "auto", the optimizer then
\* holding log_entropy_coef only; for any other mode it returns
\* (None, None).
C8_EntropyOptimizerOnlyInAutoMode ==
    SacIsSetUp =>
        LET optimizer == loc.entropy_coef_optimizer
            log_entropy_coef == loc.log_entropy_coef
        IN  /\ <<optimizer, log_entropy_coef>> = setup_entropy_optimizers(config)
            /\ config.entropy_mode = "auto" =>
                /\ optimizer # PyNone
                /\ log_entropy_coef # PyNone
                /\ optimizer.type = "optimizer"
                /\ optimizer.params = {"log_entropy_coef"}
                /\ log_entropy_coef.type = "Parameter"
            /\ config.entropy_mode # "auto" =>
                /\ optimizer = PyNone
                /\ log_entropy_coef = PyNone

C8_Witness ==
    /\ SacIsSetUp
    /\ config.entropy_mode = "auto"
    /\ loc.entropy_coef_optimizer = Optimizer({"log_entropy_coef"})
    /\ loc.log_entropy_coef = Parameter(Log(config.init_entropy_coef))
    /\ config.init_entropy_coef > 1

\* C9: when entropy_mode is not "auto", the entropy coefficient is constant
\* during run_sac: ent_coef is init_entropy_coef at every iteration, and
\* the entropy coefficient update (loss, optimizer step, logging) is never
\* executed, its guard being false.
C9_FixedEntropyCoefIsConstant ==
    (SacIsSetUp /\ config.entropy_mode # "auto") =>
        /\ loc.ent_coef = config.init_entropy_coef
        /\ loc.entropy_coef_optimizer = PyNone
        /\ stats.entropy_steps = 0
        /\ "entropy_coef" \notin stats.logged
        /\ stats.error # "NameError: rb_workspace"

C9_Witness ==
    /\ SacIsSetUp
    /\ config.entropy_mode = "fixed"
    /\ stats.yielded > 0
    /\ pc = "raised"
    /\ loc.ent_coef = config.init_entropy_coef
    /\ loc.entropy_coef_optimizer = PyNone

\* C10: when entropy_mode is "auto" the entropy coefficient is tuned: it
\* starts as init_entropy_coef, each iteration makes an entropy optimizer
\* step, and after it the ent_coef that is logged and that the next
\* iteration uses is exp(log_entropy_coef).
C10_AutoEntropyCoefIsTuned ==
    (SacIsSetUp /\ config.entropy_mode = "auto") =>
        /\ stats.yielded = 0 => loc.ent_coef = config.init_entropy_coef
        /\ BetweenIterations =>
            /\ stats.entropy_steps = stats.yielded
            /\ loc.ent_coef = Exp(loc.log_entropy_coef.value)
            /\ stats.yielded > 0 => "entropy_coef" \in stats.logged

(* ------------------------------ apply_sum ------------------------------ *)
\* env/reward of a workspace of episodes e: the rows of an environment
\* after the end of its episode duplicate its last transition
EpisodeRewards(e) ==
    {r \in Rewards :
        \A b \in Envs, t \in Time : t >= e[b].len => r[t][b] = r[e[b].len - 1][b]}

\* tensor.sum(axis=0)
SumAxis0(tensor) ==
    [b \in DOMAIN tensor[0] |->
        SumOver([t \in DOMAIN tensor |-> tensor[t][b]], DOMAIN tensor)]
\* torch.zeros_like(tensor)
ZerosLike(tensor) ==
    [t \in DOMAIN tensor |-> [b \in DOMAIN tensor[t] |-> 0]]

\* a version that gives each step the sum of the rewards up to it
apply_sum_cumulative(cfg, reward) ==
    Return([i \in DOMAIN reward |->
        [b \in DOMAIN reward[i] |-> SumTo([t \in DOMAIN reward |-> reward[t][b]], i)]])

\* apply_sum(cfg, reward, *args)
apply_sum(cfg, reward) ==
    LET reward_sum == SumAxis0(reward)
        zeros == ZerosLike(reward)
    IN  Return([i \in DOMAIN zeros |-> reward_sum])

\* one call of apply_sum on the rewards of a workspace of episodes
Call_apply_sum ==
    /\ Idle
    /\ \E e \in EpisodeEnds :
        \E reward \in EpisodeRewards(e) :
            /\ fcall' = [fn |-> "apply_sum", args |-> [reward |-> reward], episodes |-> e]
            /\ result' = apply_sum("cfg", reward)
    /\ UNCHANGED <<agentVars, driverVars>>

SumsInit == ExercisesInit
SumsNext == Call_apply_sum
SpecSums == SumsInit /\ [][SumsNext]_vars

\* apply_sum was called
SumCalled == fcall # NoCall /\ fcall.fn = "apply_sum"

\* C12: apply_sum(cfg, reward) returns a tensor of the shape T x B of
\* reward whose entry [t][b] is the sum over every time step k of
\* reward[k][b], hence the same at every t.
C12_ApplySumIsColumnSum ==
    SumCalled =>
        LET reward == fcall.args.reward
        IN  /\ result.kind = "return"
            /\ DOMAIN result.value = Time
            /\ \A t \in Time :
                /\ DOMAIN result.value[t] = Envs
                /\ \A b \in Envs :
                    /\ result.value[t][b] =
                         SumTo([k \in Time |-> reward[k][b]], TimeSize - 1)
                    /\ result.value[t][b] = result.value[0][b]

C12_Witness ==
    /\ SumCalled
    /\ result.kind = "return"
    /\ \E b \in Envs :
        /\ \A t \in Time : result.value[t][b] = 2
        /\ fcall.args.reward[0][b] = 1
        /\ fcall.args.reward[1][b] = 0
    /\ \E b \in Envs : result.value[0][b] = 0

\* C13: apply_sum sums the rewards along an episode: an environment whose
\* episode is shorter than the longest one, its later rows being
\* duplicated transitions, gets the sum of the rewards of the steps of its
\* own episode, each counted once.
C13_ApplySumCountsEachStepOnce ==
    SumCalled =>
        LET reward == fcall.args.reward
            e == fcall.episodes
        IN  /\ result.kind = "return"
            /\ \A t \in Time, b \in Envs :
                result.value[t][b] =
                    SumTo([k \in Time |-> reward[k][b]], e[b].len - 1)

(* -------------------- properties of the constructors ------------------- *)
\* the attributes SACAlgo.__init__ sets after its assertion
SacAttributes ==
    {"actor", "critic_1", "critic_2", "target_critic_1", "target_critic_2",
     "train_policy", "eval_policy"}

\* C11: building SACAlgo on an environment whose actions are not
\* continuous fails with the assertion 'SAC code dedicated to continuous
\* actions' before the actor, the critics, the target critics, train_policy
\* or eval_policy exist; on a continuous environment the construction
\* completes with all of them set.
C11_SacNeedsContinuousActions ==
    (driver = "run_sac" /\ pc # "new") =>
        IF algo.train_env.continuous
        THEN /\ pc # "failed"
             /\ stats.error # NotContinuous
             /\ SacAttributes \subseteq DOMAIN algo
        ELSE /\ pc = "failed"
             /\ stats.error = NotContinuous
             /\ SacAttributes \cap DOMAIN algo = {}

C11_Witness ==
    /\ driver = "run_sac"
    /\ pc = "failed"
    /\ ~algo.train_env.continuous
    /\ stats.error = NotContinuous
    /\ DOMAIN algo = {"train_env"}

\* C14: in A2C one optimizer holds the parameters of both prob_agent and
\* critic_agent, in REINFORCE one optimizer holds those of proba_agent and
\* of the critic agent: no network of the algorithm is outside it and
\* there is no other optimizer.
C14_OneOptimizerOverActorAndCritic ==
    /\ (driver = "run_a2c" /\ pc \notin {"new", "start"}) =>
        /\ loc.optimizer.type = "optimizer"
        /\ loc.optimizer.params = {"prob_agent", "critic_agent"}
        /\ loc.optimizer.params \subseteq DOMAIN algo
        /\ loc.actor_optimizer = Unbound
        /\ loc.critic_optimizer = Unbound
    /\ (driver = "run" /\ pc # "new") =>
        /\ algo.optimizer.type = "optimizer"
        /\ algo.optimizer.params = {"proba_agent", "t_critic_agent"}
        /\ algo.optimizer.params \subseteq DOMAIN algo
        /\ loc.optimizer = Unbound

C14_Witness ==
    /\ driver = "run"
    /\ pc = "loss"
    /\ algo.optimizer = Optimizer({"proba_agent", "t_critic_agent"})
    /\ algo.t_critic_agent = TemporalAgent(Agent("VAgent"))

\* C15: with the placeholders unfilled, run_a2c, run and run_sac abort
\* with AssertionError on the first item the iterator yields: evaluate()
\* is never called, no entropy coefficient step and no soft update is
\* made; an iterator that yields nothing lets the driver return normally.
C15_DriversAbortOnFirstItem ==
    pc \notin {"new", "failed"} =>
        /\ stats.evaluated = 0
        /\ stats.entropy_steps = 0
        /\ stats.soft_updates = 0
        /\ stats.logged = {}
        /\ stats.yielded <= 1
        /\ (stats.yielded = 1 /\ BetweenIterations) =>
            pc = "raised" /\ stats.error = NotImplemented
        /\ pc = "raised" => stats.yielded = 1 /\ stats.error = NotImplemented
        /\ pc = "returned" => stats.yielded = 0 /\ stats.error = NoExc
        /\ (pc = "loop" /\ stats.yielded = 0) => stats.error = NoExc

C15_Witness ==
    /\ driver = "run_a2c"
    /\ pc = "raised"
    /\ stats.error = NotImplemented
    /\ stats.yielded = 1
    /\ stats.evaluated = 0
    /\ items > 0

====
